---- MODULE Spec2Model ----
(***************************************************************************)
(* Model of scripts/linkedin_analysis.py (InteractiveLinkedInAnalyzer).     *)
(*                                                                         *)
(* Text is modelled as a sequence of tokens: a code fence (three           *)
(* backticks), the word json (also used as a prose word), the two braces,  *)
(* a double quote, the word null and a blank (any whitespace).  A JSON     *)
(* object is LBrace RBrace, or LBrace Quote key Quote RBrace where the     *)
(* quoted text stands for the object's members.                            *)
(* Percentages are integers in tenths of a percent (100.0 is 1000).        *)
(***************************************************************************)
EXTENDS Integers, Sequences, FiniteSets, TLC

VARIABLES
    response_text,   \* SpecJson: the model's response under extraction
    coord_json,      \* SpecJson: [text, value] chosen/parsed in identify_section_coordinates
    score_json,      \* SpecJson: [text, value] chosen/parsed in analyze_profile
    roundtrip,       \* SpecJson: the three embeddings of one object and their parses
    jpc,             \* SpecJson: position of the extraction harness
    model_sections,  \* SpecCoords: detected_sections as the model's JSON gave them
    coordinates,     \* SpecCoords: what the post-processing left, or that it raised
    cpc,             \* SpecCoords: position of the post-processing harness
    reviews,         \* SpecRender: the sections of the ProfileAnalysis being rendered
    rendered,        \* SpecRender: the markers the renderer emitted, or that it raised
    rpc,             \* SpecRender: position of the rendering harness
    profile,         \* SpecDocument: the analysis given to create_interactive_html
    document,        \* SpecDocument: the banner, strip, markers and panels it emitted
    dpc,             \* SpecDocument: position of the document harness
    infoButtons,     \* SpecPage: the number of info-buttons (and tooltips) of the page
    show,            \* SpecPage: for each tooltip, whether its classList holds show
    transform,       \* SpecPage: for each info-button, its inline style.transform
    hover,           \* SpecPage: the info-button the pointer is over, 0 when none
    last_event,      \* SpecPage: the last event, its target and show before it
    ppc,             \* SpecPage: whether the page has been loaded
    pc,                   \* Spec: the position of main and the functions it calls
    image_exists,         \* Spec: whether IMAGE_PATH names a file
    ext_reply,            \* Spec: what generate_content did in identify_section_coordinates
    score_reply,          \* Spec: what generate_content did in analyze_profile
    json_text,            \* Spec: the json_text of the step that is running
    loaded,               \* Spec: what json.loads gave the step that is running
    section_coordinates,  \* Spec: analyze_and_create_report's section_coordinates
    analysis,             \* Spec: analyze_and_create_report's analysis
    html_content,         \* Spec: the renderer's buffer, a sequence of document parts
    files,                \* Spec: the three output files, each its content or NoFile
    printed,              \* Spec: the messages printed so far
    trace,                \* Spec: the calls and returns of the steps so far
    results               \* Spec: what analyze_and_create_report returned to main

jsonVars == <<response_text, coord_json, score_json, roundtrip, jpc>>

coordVars == <<model_sections, coordinates, cpc>>

renderVars == <<reviews, rendered, rpc>>

docVars == <<profile, document, dpc>>

pageVars == <<infoButtons, show, transform, hover, last_event, ppc>>

harnessVars == <<jsonVars, coordVars, renderVars, docVars, pageVars>>

runVars == <<pc, image_exists, ext_reply, score_reply, json_text, loaded, section_coordinates, analysis,
             html_content, files, printed, trace, results>>

vars == <<jsonVars, coordVars, renderVars, docVars, pageVars, runVars>>

----------------------------------------------------------------------------
\* Bounds

MaxRespLen == 5
MaxKeyLen == 1
MaxSections == 2
MaxReviews == 2
MaxDocSections == 2
MaxImprovements == 6
MaxButtons == 3

----------------------------------------------------------------------------
\* Tokens and Python string primitives

Fence == "fence"
JsonWord == "json"
LBrace == "{"
RBrace == "}"
Quote == "quote"
NullWord == "null"
Space == " "

Tokens == {Fence, JsonWord, LBrace, RBrace, Quote, NullWord, Space}

FenceTag == <<Fence, JsonWord>>

SetMin(S) == CHOOSE x \in S : \A y \in S : x <= y

SetMax(S) == CHOOSE x \in S : \A y \in S : x >= y

\* str.find(sub, start): lowest 0-based index >= start, or -1
Find(s, sub, start) ==
    LET hits == {i \in start..(Len(s) - Len(sub)) :
                    SubSeq(s, i + 1, i + Len(sub)) = sub}
    IN IF hits = {} THEN -1 ELSE SetMin(hits)

\* str.rfind(sub): highest 0-based index, or -1
RFind(s, sub) ==
    LET hits == {i \in 0..(Len(s) - Len(sub)) :
                    SubSeq(s, i + 1, i + Len(sub)) = sub}
    IN IF hits = {} THEN -1 ELSE SetMax(hits)

\* a slice bound as Python normalises it (negative counts from the end)
SliceIndex(s, i) ==
    IF i < 0 THEN (IF Len(s) + i < 0 THEN 0 ELSE Len(s) + i)
    ELSE (IF i > Len(s) THEN Len(s) ELSE i)

\* s[a:b]
Slice(s, a, b) == SubSeq(s, SliceIndex(s, a) + 1, SliceIndex(s, b))

\* str.strip()
Strip(s) ==
    LET solid == {i \in 1..Len(s) : s[i] # Space}
    IN IF solid = {} THEN <<>> ELSE SubSeq(s, SetMin(solid), SetMax(solid))

Contains(s, sub) == Find(s, sub, 0) # -1

----------------------------------------------------------------------------
\* json.loads

JSONDecodeError == [kind |-> "JSONDecodeError", keys |-> <<>>]
None == [kind |-> "None", keys |-> <<>>]
Dict(keys) == [kind |-> "dict", keys |-> keys]

JsonLoads(text) ==
    LET t == Strip(text)
        inner == Strip(SubSeq(t, 2, Len(t) - 1))
    IN IF t = <<NullWord>> THEN None
       ELSE IF Len(t) >= 2 /\ t[1] = LBrace /\ t[Len(t)] = RBrace
       THEN IF inner = <<>> THEN Dict(<<>>)
            ELSE IF /\ Len(inner) >= 2
                    /\ inner[1] = Quote
                    /\ inner[Len(inner)] = Quote
                    /\ \A i \in 2..(Len(inner) - 1) : inner[i] # Quote
                 THEN Dict(<<SubSeq(inner, 2, Len(inner) - 1)>>)
                 ELSE JSONDecodeError
       ELSE JSONDecodeError

----------------------------------------------------------------------------
\* The text handed to json.loads, at each call site

\* a variant of the coordinate site whose brace rule stops before the last brace
CoordJsonTextExclusiveEnd(text) ==
    IF Contains(text, FenceTag)
    THEN LET json_start == Find(text, FenceTag, 0) + Len(FenceTag)
             json_end == Find(text, <<Fence>>, json_start)
         IN Strip(Slice(text, json_start, json_end))
    ELSE LET json_start == Find(text, <<LBrace>>, 0)
             json_end == RFind(text, <<RBrace>>)
         IN Slice(text, json_start, json_end)

CoordJsonText(text) ==
    IF Contains(text, FenceTag)
    THEN LET json_start == Find(text, FenceTag, 0) + Len(FenceTag)
             json_end == Find(text, <<Fence>>, json_start)
         IN Strip(Slice(text, json_start, json_end))
    ELSE LET json_start == Find(text, <<LBrace>>, 0)
             json_end == RFind(text, <<RBrace>>) + 1
         IN Slice(text, json_start, json_end)

\* a variant of the scoring site that takes the first closing brace
ScoreJsonTextFirstBrace(text) ==
    IF Contains(text, FenceTag)
    THEN LET json_start == Find(text, FenceTag, 0) + Len(FenceTag)
             json_end == Find(text, <<Fence>>, json_start)
         IN Strip(Slice(text, json_start, json_end))
    ELSE LET json_start == Find(text, <<LBrace>>, 0)
             json_end == Find(text, <<RBrace>>, 0) + 1
         IN Slice(text, json_start, json_end)

ScoreJsonText(text) ==
    IF Contains(text, FenceTag)
    THEN LET json_start == Find(text, FenceTag, 0) + Len(FenceTag)
             json_end == Find(text, <<Fence>>, json_start)
         IN Strip(Slice(text, json_start, json_end))
    ELSE LET json_start == Find(text, <<LBrace>>, 0)
             json_end == RFind(text, <<RBrace>>) + 1
         IN Slice(text, json_start, json_end)

----------------------------------------------------------------------------
\* Coordinate post-processing of identify_section_coordinates (lines 121-140).
\* title_coordinates is <<x, y>>, <<>> when the section has no such key, and a
\* one-element list when the model gave a malformed pair.

ExtractorUpper == 1000
Nudge == 5

Max2(a, b) == IF a >= b THEN a ELSE b

Min2(a, b) == IF a <= b THEN a ELSE b

\* section.get('title_coordinates', [0, 0])
TitleCoordinates(section) ==
    IF section.title_coordinates = <<>> THEN <<0, 0>> ELSE section.title_coordinates

\* the sort key, x.get('title_coordinates', [0, 0])[1]
SortKey(section) == TitleCoordinates(section)[2]

\* list.sort places an element after the elements whose key is not larger
RECURSIVE InsertSection(_, _)
InsertSection(sorted, section) ==
    IF sorted = <<>> THEN <<section>>
    ELSE IF SortKey(Head(sorted)) <= SortKey(section)
         THEN <<Head(sorted)>> \o InsertSection(Tail(sorted), section)
         ELSE <<section>> \o sorted

RECURSIVE SortSections(_)
SortSections(sections) ==
    IF sections = <<>> THEN <<>>
    ELSE InsertSection(SortSections(SubSeq(sections, 1, Len(sections) - 1)),
                       sections[Len(sections)])

\* max(0.0, min(100.0, v))
ClampExtractor(v) == Max2(0, Min2(ExtractorUpper, v))

\* the x-adjustment without the guard against a negative result
AdjustXUnguarded(x) == ClampExtractor(x) - Nudge

\* coords[0] = max(0.0, min(100.0, coords[0])); coords[0] = max(0.0, coords[0] - 0.5)
AdjustX(x) == Max2(0, ClampExtractor(x) - Nudge)

HighConfidence == 85

NoConfidence == [present |-> FALSE, value |-> 0]

NoPrecision == ""

\* section.get('confidence', 0)
Confidence(section) ==
    IF section.confidence.present THEN section.confidence.value ELSE 0

\* a precision with a third tier
CoordinatePrecisionThreeTiers(section) ==
    IF Confidence(section) >= HighConfidence THEN "high"
    ELSE IF Confidence(section) > 0 THEN "medium"
    ELSE "low"

\* 'high' if section.get('confidence', 0) >= 85 else 'medium'
CoordinatePrecision(section) ==
    IF Confidence(section) >= HighConfidence THEN "high" ELSE "medium"

AdjustSection(section) ==
    LET coords == TitleCoordinates(section)
    IN [section EXCEPT !.title_coordinates =
                           <<AdjustX(coords[1]), ClampExtractor(coords[2])>>,
                       !.coordinate_precision = CoordinatePrecision(section)]

\* indexing a one-element list at [1] raises, and the except clause returns None
SectionsRaise(sections) ==
    \E i \in 1..Len(sections) : Len(sections[i].title_coordinates) = 1

\* the post-processing skipped the sort
PostProcessUnsorted(sections) ==
    IF SectionsRaise(sections)
    THEN [raised |-> TRUE, detected_sections |-> <<>>]
    ELSE [raised |-> FALSE,
          detected_sections |-> [i \in 1..Len(sections) |-> AdjustSection(sections[i])]]

PostProcess(sections) ==
    IF SectionsRaise(sections)
    THEN [raised |-> TRUE, detected_sections |-> <<>>]
    ELSE LET sorted == SortSections(sections)
         IN [raised |-> FALSE,
             detected_sections |-> [i \in 1..Len(sorted) |-> AdjustSection(sorted[i])]]

XInputs == {-5, 3, 500, 1004}
YInputs == {-5, 500, 1200, 1500}

TitleCoordinateInputs ==
    {<<>>} \cup {<<x>> : x \in {500}} \cup (XInputs \X YInputs)

ConfidenceInputs == {[present |-> TRUE, value |-> v] : v \in {0, 84, 85, 100}}

\* a section with some pair and no confidence, or with some confidence
SectionInputs ==
    {[title_coordinates |-> c, confidence |-> NoConfidence] :
        c \in TitleCoordinateInputs} \cup
    {[title_coordinates |-> <<500, 500>>, confidence |-> c] : c \in ConfidenceInputs}

\* the section lists of a reply: the i-th section is named i
SectionLists ==
    UNION {{[i \in 1..n |-> [section_name |-> i,
                              title_coordinates |-> f[i].title_coordinates,
                              confidence |-> f[i].confidence,
                              coordinate_precision |-> NoPrecision]] :
                f \in [1..n -> SectionInputs]} : n \in 0..MaxSections}

CoordIdle ==
    /\ model_sections = <<>>
    /\ coordinates = [raised |-> FALSE, detected_sections |-> <<>>, resorted |-> <<>>]
    /\ cpc = "idle"

\* the post-processing of one parsed reply
PostProcessReply ==
    /\ cpc = "idle"
    /\ \E sections \in SectionLists :
          /\ model_sections' = sections
          /\ coordinates' = [raised |-> PostProcess(sections).raised,
                              detected_sections |-> PostProcess(sections).detected_sections,
                              resorted |-> <<>>]
    /\ cpc' = "processed"
    /\ UNCHANGED <<jsonVars, renderVars, docVars, pageVars, runVars>>

\* list.sort applied again to the stored result
SortAgain ==
    /\ cpc = "processed"
    /\ coordinates' = [coordinates EXCEPT
                          !.resorted = SortSections(coordinates.detected_sections)]
    /\ cpc' = "resorted"
    /\ UNCHANGED <<model_sections, jsonVars, renderVars, docVars, pageVars, runVars>>

CoordNext == PostProcessReply \/ SortAgain

----------------------------------------------------------------------------
\* The marker loop of create_interactive_html (lines 720-757).
\* coordinates is <<x, y>>, or <<>> when the section has no (or an empty)
\* coordinates value; bbox is <<x0, y0, x1, y1>>, or <<>> when the section has
\* none; a one-element list stands for a malformed value.

RendererUpper == 950
RendererOffset == 30

\* section.get('bbox', [0, 0, 10, 10])
Bbox(section) == IF section.bbox = <<>> THEN <<0, 0, 100, 100>> ELSE section.bbox

\* 'coordinates' in section and section['coordinates']
HasCoordinates(section) == section.coordinates # <<>>

\* an anchor that offsets the bounding-box corner like the coordinates
AnchorOffsetBoth(section) ==
    IF HasCoordinates(section)
    THEN <<section.coordinates[1] + RendererOffset, section.coordinates[2]>>
    ELSE <<Bbox(section)[3] + RendererOffset, Bbox(section)[2]>>

\* x_pos, y_pos before the clamp
Anchor(section) ==
    IF HasCoordinates(section)
    THEN <<section.coordinates[1] + RendererOffset, section.coordinates[2]>>
    ELSE <<Bbox(section)[3], Bbox(section)[2]>>

\* a clamp to the extractor's range
ClampRendererToExtractorRange(v) == Max2(0, Min2(ExtractorUpper, v))

\* max(0.0, min(95.0, v))
ClampRenderer(v) == Max2(0, Min2(RendererUpper, v))

\* coordinates[1] or bbox[2] of a list that is too short raises IndexError
ReviewRaises(section) ==
    IF HasCoordinates(section)
    THEN Len(section.coordinates) < 2
    ELSE Len(Bbox(section)) < 3

\* the info-button of the section at 0-based position i
Marker(section, i) ==
    [part |-> "marker", index |-> i, anchor |-> Anchor(section),
     left |-> ClampRenderer(Anchor(section)[1]),
     top |-> ClampRenderer(Anchor(section)[2])]

\* the markers of the sections before the first one that raises
RECURSIVE Markers(_, _)
Markers(sections, i) ==
    IF i >= Len(sections) \/ ReviewRaises(sections[i + 1]) THEN <<>>
    ELSE <<Marker(sections[i + 1], i)>> \o Markers(sections, i + 1)

MarkersRaise(sections) == \E i \in 1..Len(sections) : ReviewRaises(sections[i])

CoordinatesInputs ==
    {<<>>, <<500>>} \cup ({-40, 100, 930} \X {0, 1000})

BboxInputs == {<<>>, <<50>>, <<100, 200, 400, 300>>, <<0, -10, 990, 50>>}

\* a section with coordinates only, with a bbox only, with both or with neither
ReviewInputs ==
    {[coordinates |-> c, bbox |-> <<>>] : c \in CoordinatesInputs} \cup
    {[coordinates |-> c, bbox |-> b] : c \in {<<>>, <<100, 1000>>}, b \in BboxInputs}

\* the section lists of an analysis: the i-th section is named i
ReviewLists ==
    UNION {{[i \in 1..n |-> [name |-> i, coordinates |-> r[i].coordinates,
                                         bbox |-> r[i].bbox]] :
                r \in [1..n -> ReviewInputs]} : n \in 0..MaxReviews}

RenderIdle ==
    /\ reviews = <<>>
    /\ rendered = [raised |-> FALSE, markers |-> <<>>]
    /\ rpc = "idle"

\* the marker loop over the sections of one analysis
RenderMarkers ==
    /\ rpc = "idle"
    /\ \E sections \in ReviewLists :
          /\ reviews' = sections
          /\ rendered' = [raised |-> MarkersRaise(sections),
                          markers |-> Markers(sections, 0)]
    /\ rpc' = "rendered"
    /\ UNCHANGED <<jsonVars, coordVars, docVars, pageVars, runVars>>

RenderNext == RenderMarkers

----------------------------------------------------------------------------
\* The document create_interactive_html builds from an analysis: the score
\* banner, the statistics strip, and one info-button and one tooltip per
\* section (lines 267-277, 684-808).  overall_score is [present, value];
\* a criticality of Absent stands for a section without that key; the
\* improvements are numbered 1, 2, ... in the order the analysis lists them.

ExcellentScore == 85
GoodScore == 60
ImprovementLimit == 5

Absent == "absent"

\* analysis.get('overall_score', 0)
OverallScore(analysis_) ==
    IF analysis_.overall_score.present THEN analysis_.overall_score.value ELSE 0

\* a banner whose excellent class starts above 85
ScoreClassStrict(overall_score) ==
    IF overall_score > ExcellentScore THEN "score-excellent"
    ELSE IF overall_score >= GoodScore THEN "score-good"
    ELSE "score-poor"

\* the score class of the banner
ScoreClass(overall_score) ==
    IF overall_score >= ExcellentScore THEN "score-excellent"
    ELSE IF overall_score >= GoodScore THEN "score-good"
    ELSE "score-poor"

\* a tally that gives a section without criticality the marker's default
CriticalityCountWithDefault(sections, colour) ==
    Cardinality({k \in 1..Len(sections) :
        (IF sections[k].criticality = Absent THEN "yellow" ELSE sections[k].criticality)
            = colour})

\* len([s for s in sections if s.get('criticality') == colour])
CriticalityCount(sections, colour) ==
    Cardinality({k \in 1..Len(sections) : sections[k].criticality = colour})

\* the statistics strip
StatsRow(sections) ==
    [red_count |-> CriticalityCount(sections, "red"),
     yellow_count |-> CriticalityCount(sections, "yellow"),
     green_count |-> CriticalityCount(sections, "green"),
     total_sections |-> Len(sections)]

\* a marker that takes the class of its section as it is, without a default
MarkerCriticalityNoDefault(section) == section.criticality

\* section.get('criticality', 'yellow')
MarkerCriticality(section) ==
    IF section.criticality = Absent THEN "yellow" ELSE section.criticality

\* the info-button of the section at 0-based position i
InfoButton(section, i) ==
    [criticality |-> MarkerCriticality(section),
     left |-> Marker(section, i).left,
     top |-> Marker(section, i).top,
     tooltip_id |-> i]

\* a list of improvements without its limit
AllImprovements(improvements) == improvements

\* improvements[:5]
FirstImprovements(improvements) ==
    SubSeq(improvements, 1, Min2(ImprovementLimit, Len(improvements)))

\* the tooltip of the section at 0-based position i
Tooltip(section, i) ==
    [id |-> i, name |-> section.name,
     improvements |-> FirstImprovements(section.improvements)]

\* the document of an analysis whose sections all have well-formed positions
CreateInteractiveHtml(analysis_) ==
    [score_class |-> ScoreClass(OverallScore(analysis_)),
     stats |-> StatsRow(analysis_.sections),
     buttons |-> [k \in 1..Len(analysis_.sections) |->
                     InfoButton(analysis_.sections[k], k - 1)],
     tooltips |-> [k \in 1..Len(analysis_.sections) |->
                      Tooltip(analysis_.sections[k], k - 1)]]

ScoreInputs ==
    {[present |-> FALSE, value |-> 0]} \cup
    {[present |-> TRUE, value |-> v] : v \in {-1, 0, 59, 60, 84, 85, 100, 101}}

CriticalityInputs == {"red", "yellow", "green", "orange", Absent}

\* a section with some criticality and no improvements, or a red one with
\* one to MaxImprovements improvements
DocSectionInputs ==
    {[criticality |-> c, improvements |-> <<>>] : c \in CriticalityInputs} \cup
    {[criticality |-> "red", improvements |-> [k \in 1..n |-> k]] :
        n \in 1..MaxImprovements}

\* the section lists of an analysis: the i-th section is named i
DocSectionLists ==
    UNION {{[i \in 1..n |-> [name |-> i, coordinates |-> <<100, 200>>, bbox |-> <<>>,
                              criticality |-> r[i].criticality,
                              improvements |-> r[i].improvements]] :
                r \in [1..n -> DocSectionInputs]} : n \in 0..MaxDocSections}

NoDocument ==
    [score_class |-> "", stats |-> StatsRow(<<>>), buttons |-> <<>>, tooltips |-> <<>>]

DocIdle ==
    /\ profile = [overall_score |-> [present |-> FALSE, value |-> 0], sections |-> <<>>]
    /\ document = NoDocument
    /\ dpc = "idle"

\* create_interactive_html applied to one analysis
RenderDocument ==
    /\ dpc = "idle"
    /\ \E score \in ScoreInputs, sections \in DocSectionLists :
          /\ profile' = [overall_score |-> score, sections |-> sections]
          /\ document' = CreateInteractiveHtml(profile')
    /\ dpc' = "rendered"
    /\ UNCHANGED <<jsonVars, coordVars, renderVars, pageVars, runVars>>

DocNext == RenderDocument

----------------------------------------------------------------------------
\* The handlers of the document's script (lines 865-953).  The page has
\* infoButtons info-buttons; the button at position i carries
\* data-tooltip-id tooltip-(i-1), the id of the tooltip at position i.

NoTransform == ""
Enlarged == "scale(1.2)"
Unscaled == "scale(1)"

Event(kind, target) == [kind |-> kind, target |-> target, before |-> show]

PageIdle ==
    /\ infoButtons = 0
    /\ show = <<>>
    /\ transform = <<>>
    /\ hover = 0
    /\ last_event = [kind |-> "none", target |-> 0, before |-> <<>>]
    /\ ppc = "idle"

\* DOMContentLoaded: the handlers are attached; no tooltip is shown (lines 396-421, 865-867)
LoadPage ==
    /\ ppc = "idle"
    /\ \E n \in 0..MaxButtons :
          /\ infoButtons' = n
          /\ show' = [t \in 1..n |-> FALSE]
          /\ transform' = [b \in 1..n |-> NoTransform]
          /\ last_event' = [kind |-> "load", target |-> 0, before |-> [t \in 1..n |-> FALSE]]
    /\ hover' = 0
    /\ ppc' = "loaded"
    /\ UNCHANGED <<jsonVars, coordVars, renderVars, docVars, runVars>>

\* a click handler that leaves the other tooltips as they are
ClickButtonKeepingOthers ==
    /\ ppc = "loaded"
    /\ \E b \in 1..infoButtons :
          /\ show' = [show EXCEPT ![b] = ~show[b]]
          /\ last_event' = Event("click_button", b)
    /\ UNCHANGED <<infoButtons, transform, hover, ppc>>
    /\ UNCHANGED <<jsonVars, coordVars, renderVars, docVars, runVars>>

\* click on an info-button (lines 874-891)
ClickButton ==
    /\ ppc = "loaded"
    /\ \E b \in 1..infoButtons :
          /\ show' = [t \in 1..infoButtons |-> IF t # b THEN FALSE ELSE ~show[b]]
          /\ last_event' = Event("click_button", b)
    /\ UNCHANGED <<infoButtons, transform, hover, ppc>>
    /\ UNCHANGED <<jsonVars, coordVars, renderVars, docVars, runVars>>

\* the pointer moves onto an info-button (lines 894-896)
MouseEnter ==
    /\ ppc = "loaded"
    /\ hover = 0
    /\ \E b \in 1..infoButtons :
          /\ hover' = b
          /\ transform' = [transform EXCEPT ![b] = Enlarged]
          /\ last_event' = Event("mouseenter", b)
    /\ UNCHANGED <<infoButtons, show, ppc>>
    /\ UNCHANGED <<jsonVars, coordVars, renderVars, docVars, runVars>>

\* a mouseleave handler that resets the scale whether or not the tooltip is shown
MouseLeaveUnguarded ==
    /\ ppc = "loaded"
    /\ hover # 0
    /\ hover' = 0
    /\ transform' = [transform EXCEPT ![hover] = Unscaled]
    /\ last_event' = Event("mouseleave", hover)
    /\ UNCHANGED <<infoButtons, show, ppc>>
    /\ UNCHANGED <<jsonVars, coordVars, renderVars, docVars, runVars>>

\* the pointer leaves the info-button it was over (lines 898-902)
MouseLeave ==
    /\ ppc = "loaded"
    /\ hover # 0
    /\ hover' = 0
    /\ transform' = IF ~show[hover] THEN [transform EXCEPT ![hover] = Unscaled]
                    ELSE transform
    /\ last_event' = Event("mouseleave", hover)
    /\ UNCHANGED <<infoButtons, show, ppc>>
    /\ UNCHANGED <<jsonVars, coordVars, renderVars, docVars, runVars>>

\* click inside a tooltip that is shown: the click stops at the tooltip, and
\* the document's handler would skip it (lines 926, 939-943)
ClickTooltip ==
    /\ ppc = "loaded"
    /\ \E t \in 1..infoButtons :
          /\ show[t]
          /\ last_event' = Event("click_tooltip", t)
    /\ UNCHANGED <<infoButtons, show, transform, hover, ppc>>
    /\ UNCHANGED <<jsonVars, coordVars, renderVars, docVars, runVars>>

\* click outside every info-button and tooltip (lines 925-936)
ClickOutside ==
    /\ ppc = "loaded"
    /\ show' = [t \in 1..infoButtons |-> FALSE]
    /\ transform' = [b \in 1..infoButtons |-> Unscaled]
    /\ last_event' = Event("click_outside", 0)
    /\ UNCHANGED <<infoButtons, hover, ppc>>
    /\ UNCHANGED <<jsonVars, coordVars, renderVars, docVars, runVars>>

\* a resize handler that does nothing
ResizeIgnored ==
    /\ ppc = "loaded"
    /\ last_event' = Event("resize", 0)
    /\ UNCHANGED <<infoButtons, show, transform, hover, ppc>>
    /\ UNCHANGED <<jsonVars, coordVars, renderVars, docVars, runVars>>

\* window resize (lines 946-952)
Resize ==
    /\ ppc = "loaded"
    /\ show' = [t \in 1..infoButtons |-> IF show[t] THEN FALSE ELSE show[t]]
    /\ last_event' = Event("resize", 0)
    /\ UNCHANGED <<infoButtons, transform, hover, ppc>>
    /\ UNCHANGED <<jsonVars, coordVars, renderVars, docVars, runVars>>

PageNext ==
    \/ LoadPage
    \/ ClickButton
    \/ MouseEnter
    \/ MouseLeave
    \/ ClickTooltip
    \/ ClickOutside
    \/ Resize

----------------------------------------------------------------------------
\* The two steps that call the model.  A reply is what generate_content did:
\* it raised, or it returned a text; sections is what the members of the
\* text's JSON object hold (detected_sections, or the analysis' sections).

Raised == [raised |-> TRUE, text |-> <<>>, sections |-> <<>>]

Reply(text, sections) == [raised |-> FALSE, text |-> text, sections |-> sections]

NoReply == [raised |-> FALSE, text |-> <<>>, sections |-> <<>>]

\* a Python value: None, or a dict with its keys and the sections it holds
NoneValue == [kind |-> "None", keys |-> <<>>, sections |-> <<>>]

DictValue(keys, sections) == [kind |-> "dict", keys |-> keys, sections |-> sections]

\* a test for None only
IsNotNone(value) == value.kind = "dict"

\* bool(value): None and the empty dict are false
Truthy(value) == value.kind = "dict" /\ value.keys # <<>>

\* json.loads of the text a call site selected, with the members' content
Loaded(text, sections) ==
    LET value == JsonLoads(text)
    IN IF value = JSONDecodeError THEN [kind |-> "JSONDecodeError", keys |-> <<>>, sections |-> <<>>]
       ELSE IF value.kind = "dict" /\ value.keys # <<>> THEN DictValue(value.keys, sections)
       ELSE IF value.kind = "dict" THEN DictValue(<<>>, <<>>)
       ELSE NoneValue

\* identify_section_coordinates after json.loads, or after generate_content
\* raised: the value returned and the messages printed (lines 121-151)
IdentifySectionCoordinates(reply, coordinates_) ==
    IF reply.raised
    THEN [value |-> NoneValue, printed |-> <<"Error in coordinate detection">>]
    ELSE IF coordinates_.kind = "JSONDecodeError"
    THEN [value |-> NoneValue,
          printed |-> <<"JSON parsing error in coordinate detection", "Raw response">>]
    ELSE IF Truthy(coordinates_) /\ coordinates_.sections # <<>>
    THEN IF PostProcess(coordinates_.sections).raised
         THEN [value |-> NoneValue, printed |-> <<"Error in coordinate detection">>]
         ELSE [value |-> DictValue(coordinates_.keys,
                           PostProcess(coordinates_.sections).detected_sections),
               printed |-> <<>>]
    ELSE [value |-> coordinates_, printed |-> <<>>]

\* an analyze_profile that answers a failed call with a placeholder analysis
AnalyzeProfileWithDefault(reply, analysis_) ==
    IF reply.raised \/ analysis_.kind = "JSONDecodeError"
    THEN [value |-> DictValue(<<<<JsonWord>>>>, <<>>), printed |-> <<"Error in analysis">>]
    ELSE [value |-> analysis_, printed |-> <<>>]

\* analyze_profile after json.loads, or after generate_content raised (lines 246-251)
AnalyzeProfile(reply, analysis_) ==
    IF reply.raised \/ analysis_.kind = "JSONDecodeError"
    THEN [value |-> NoneValue, printed |-> <<"Error in analysis">>]
    ELSE [value |-> analysis_, printed |-> <<>>]

NoPath == "None"
CoordsFile == "detected_coordinates.json"

\* a result whose coordinates_json is always the path
ReportResultsAlwaysPath(coords, analysis_) ==
    [kind |-> "dict", keys |-> <<<<JsonWord>>>>, sections |-> analysis_.sections,
     coordinates_json |-> CoordsFile]

\* the dict analyze_and_create_report returns (lines 1020-1026)
ReportResults(coords, analysis_) ==
    [kind |-> "dict", keys |-> <<<<JsonWord>>>>, sections |-> analysis_.sections,
     coordinates_json |-> IF Truthy(coords) THEN CoordsFile ELSE NoPath]

\* the document parts around the markers
HeaderPart == [part |-> "header"]
StatsPart == [part |-> "stats"]
SummaryPart == [part |-> "summary"]
ScriptPart == [part |-> "script"]

NoFile == <<[part |-> "no file"]>>

----------------------------------------------------------------------------
\* The replies the model is given in a run

ObjectText == <<LBrace, Quote, JsonWord, Quote, RBrace>>

CannedTexts ==
    {<<JsonWord, Space, JsonWord>>,
     <<JsonWord, LBrace, LBrace, Quote, JsonWord, Quote, RBrace>>,
     <<LBrace, RBrace>>,
     <<Fence, JsonWord, Space, NullWord, Space, Fence>>}

ObjectTexts ==
    {<<JsonWord, Space>> \o ObjectText \o <<Space, JsonWord>>,
     <<JsonWord, Fence, JsonWord, Space>> \o ObjectText \o <<Space, Fence, JsonWord>>}

CannedDetectedSections ==
    {<<>>,
     <<[section_name |-> 1, title_coordinates |-> <<1004, 500>>,
        confidence |-> [present |-> TRUE, value |-> 90], coordinate_precision |-> NoPrecision],
       [section_name |-> 2, title_coordinates |-> <<3, 0>>,
        confidence |-> NoConfidence, coordinate_precision |-> NoPrecision]>>,
     <<[section_name |-> 1, title_coordinates |-> <<500>>,
        confidence |-> NoConfidence, coordinate_precision |-> NoPrecision]>>}

CannedReviews ==
    {<<>>,
     <<[name |-> 1, coordinates |-> <<100, 1000>>, bbox |-> <<>>],
       [name |-> 2, coordinates |-> <<>>, bbox |-> <<100, 200, 400, 300>>]>>,
     <<[name |-> 1, coordinates |-> <<930, 0>>, bbox |-> <<>>],
       [name |-> 2, coordinates |-> <<500>>, bbox |-> <<>>]>>}

CoordReplies ==
    {Raised} \cup {Reply(t, <<>>) : t \in CannedTexts}
             \cup {Reply(t, d) : t \in ObjectTexts, d \in CannedDetectedSections}

ScoreReplies ==
    {Raised} \cup {Reply(t, <<>>) : t \in CannedTexts}
             \cup {Reply(t, d) : t \in ObjectTexts, d \in CannedReviews}

----------------------------------------------------------------------------
\* Spec: one run of main

Log(event) == trace' = Append(trace, event)

\* a file was written, then a step was called or returned
LogWrite(file, event) == trace' = trace \o <<file, event>>

Say(messages) == printed' = printed \o messages

RunIdle ==
    /\ pc = "main"
    /\ ext_reply = NoReply
    /\ score_reply = NoReply
    /\ json_text = <<>>
    /\ loaded = NoneValue
    /\ section_coordinates = NoneValue
    /\ analysis = NoneValue
    /\ html_content = <<>>
    /\ files = [coordinates |-> NoFile, analysis |-> NoFile, html |-> NoFile]
    /\ printed = <<>>
    /\ trace = <<>>
    /\ results = NoneValue

\* main calls analyze_and_create_report, which calls the extractor (lines 1037-1041, 965-973)
StartRun ==
    /\ pc = "main"
    /\ pc' = "extractor_open"
    /\ Say(<<"Step 1">>)
    /\ Log("extractor_call")
    /\ UNCHANGED harnessVars
    /\ UNCHANGED <<json_text, loaded>>
    /\ UNCHANGED <<image_exists, ext_reply, score_reply, section_coordinates, analysis,
                   html_content, files, results>>

\* Image.open succeeds (line 27)
ExtractorOpenImage ==
    /\ pc = "extractor_open"
    /\ image_exists
    /\ pc' = "extractor_model"
    /\ UNCHANGED harnessVars
    /\ UNCHANGED <<json_text, loaded>>
    /\ UNCHANGED <<image_exists, ext_reply, score_reply, section_coordinates, analysis,
                   html_content, files, printed, trace, results>>

\* Image.open raises FileNotFoundError, which nothing catches before main (line 27)
ExtractorImageMissing ==
    /\ pc = "extractor_open"
    /\ ~image_exists
    /\ pc' = "main_file_not_found"
    /\ UNCHANGED harnessVars
    /\ UNCHANGED <<json_text, loaded>>
    /\ UNCHANGED <<image_exists, ext_reply, score_reply, section_coordinates, analysis,
                   html_content, files, printed, trace, results>>

\* generate_content in the extractor (lines 106-107)
ExtractorCallModel ==
    /\ pc = "extractor_model"
    /\ \E reply \in CoordReplies :
          /\ ext_reply' = reply
          /\ pc' = IF reply.raised THEN "extractor_return" ELSE "extractor_extract"
    /\ Log("extractor_model_call")
    /\ UNCHANGED harnessVars
    /\ UNCHANGED <<json_text, loaded>>
    /\ UNCHANGED <<image_exists, score_reply, section_coordinates, analysis,
                   html_content, files, printed, results>>

\* the extractor selects the JSON text of the response (lines 109-117)
ExtractorExtractJson ==
    /\ pc = "extractor_extract"
    /\ json_text' = CoordJsonText(ext_reply.text)
    /\ pc' = "extractor_loads"
    /\ UNCHANGED harnessVars
    /\ UNCHANGED <<image_exists, ext_reply, score_reply, loaded, section_coordinates, analysis,
                   html_content, files, printed, trace, results>>

\* json.loads in the extractor (line 119)
ExtractorLoads ==
    /\ pc = "extractor_loads"
    /\ loaded' = Loaded(json_text, ext_reply.sections)
    /\ pc' = "extractor_return"
    /\ UNCHANGED harnessVars
    /\ UNCHANGED <<image_exists, ext_reply, score_reply, json_text, section_coordinates, analysis,
                   html_content, files, printed, trace, results>>

\* the extractor post-processes and returns, or its except clause returns
\* None (lines 121-151)
ExtractorReturn ==
    /\ pc = "extractor_return"
    /\ section_coordinates' = IdentifySectionCoordinates(ext_reply, loaded).value
    /\ Say(IdentifySectionCoordinates(ext_reply, loaded).printed)
    /\ Log("extractor_return")
    /\ pc' = "step1_branch"
    /\ UNCHANGED harnessVars
    /\ UNCHANGED <<json_text, loaded>>
    /\ UNCHANGED <<image_exists, ext_reply, score_reply, analysis,
                   html_content, files, results>>

\* if section_coordinates: the coordinates file is written (lines 975-982, 988-989)
SaveCoordinates ==
    /\ pc = "step1_branch"
    /\ Truthy(section_coordinates)
    /\ files' = [files EXCEPT !.coordinates = section_coordinates.sections]
    /\ Say(<<"Detected sections", "Coordinates saved", "Step 2">>)
    /\ LogWrite("write_coordinates", "scorer_call")
    /\ pc' = "scorer_model"
    /\ UNCHANGED harnessVars
    /\ UNCHANGED <<json_text, loaded>>
    /\ UNCHANGED <<image_exists, ext_reply, score_reply, section_coordinates, analysis,
                   html_content, results>>

\* else: the run goes on without coordinates (lines 983-989)
CoordinatesFailed ==
    /\ pc = "step1_branch"
    /\ ~Truthy(section_coordinates)
    /\ section_coordinates' = NoneValue
    /\ Say(<<"Coordinate detection failed", "Step 2">>)
    /\ Log("scorer_call")
    /\ pc' = "scorer_model"
    /\ UNCHANGED harnessVars
    /\ UNCHANGED <<json_text, loaded>>
    /\ UNCHANGED <<image_exists, ext_reply, score_reply, analysis,
                   html_content, files, results>>

\* Image.open and generate_content in the scorer (lines 156-234)
ScorerCallModel ==
    /\ pc = "scorer_model"
    /\ \E reply \in ScoreReplies :
          /\ score_reply' = reply
          /\ pc' = IF reply.raised THEN "scorer_return" ELSE "scorer_extract"
    /\ Log("scorer_model_call")
    /\ UNCHANGED harnessVars
    /\ UNCHANGED <<json_text, loaded>>
    /\ UNCHANGED <<image_exists, ext_reply, section_coordinates, analysis,
                   html_content, files, printed, results>>

\* the scorer selects the JSON text of the response (lines 236-244)
ScorerExtractJson ==
    /\ pc = "scorer_extract"
    /\ json_text' = ScoreJsonText(score_reply.text)
    /\ pc' = "scorer_loads"
    /\ UNCHANGED harnessVars
    /\ UNCHANGED <<image_exists, ext_reply, score_reply, loaded, section_coordinates, analysis,
                   html_content, files, printed, trace, results>>

\* json.loads in the scorer (line 246)
ScorerLoads ==
    /\ pc = "scorer_loads"
    /\ loaded' = Loaded(json_text, score_reply.sections)
    /\ pc' = "scorer_return"
    /\ UNCHANGED harnessVars
    /\ UNCHANGED <<image_exists, ext_reply, score_reply, json_text, section_coordinates, analysis,
                   html_content, files, printed, trace, results>>

\* the scorer returns the analysis, or its except clause returns None (lines 247-251)
ScorerReturn ==
    /\ pc = "scorer_return"
    /\ analysis' = AnalyzeProfile(score_reply, loaded).value
    /\ Say(AnalyzeProfile(score_reply, loaded).printed)
    /\ Log("scorer_return")
    /\ pc' = "step2_branch"
    /\ UNCHANGED harnessVars
    /\ UNCHANGED <<json_text, loaded>>
    /\ UNCHANGED <<image_exists, ext_reply, score_reply, section_coordinates,
                   html_content, files, results>>

\* a failed analysis that calls the scorer once more
AnalysisFailedRetry ==
    /\ pc = "step2_branch"
    /\ ~Truthy(analysis)
    /\ Say(<<"Profile analysis failed">>)
    /\ (IF Len(trace) < 8 THEN pc' = "scorer_model" /\ Log("scorer_call")
                          ELSE pc' = "main_return" /\ UNCHANGED trace)
    /\ results' = NoneValue
    /\ UNCHANGED harnessVars
    /\ UNCHANGED <<json_text, loaded>>
    /\ UNCHANGED <<image_exists, ext_reply, score_reply, section_coordinates, analysis,
                   html_content, files>>

\* if not analysis: return None (lines 991-993)
AnalysisFailed ==
    /\ pc = "step2_branch"
    /\ ~Truthy(analysis)
    /\ Say(<<"Profile analysis failed">>)
    /\ results' = NoneValue
    /\ pc' = "main_return"
    /\ UNCHANGED harnessVars
    /\ UNCHANGED <<json_text, loaded>>
    /\ UNCHANGED <<image_exists, ext_reply, score_reply, section_coordinates, analysis,
                   html_content, files, trace>>

\* the analysis file is written and the renderer called (lines 995-1005)
SaveAnalysis ==
    /\ pc = "step2_branch"
    /\ Truthy(analysis)
    /\ files' = [files EXCEPT !.analysis = analysis.sections]
    /\ Say(<<"Analysis saved", "Step 3">>)
    /\ LogWrite("write_analysis", "renderer_call")
    /\ pc' = "render_header"
    /\ UNCHANGED harnessVars
    /\ UNCHANGED <<json_text, loaded>>
    /\ UNCHANGED <<image_exists, ext_reply, score_reply, section_coordinates, analysis,
                   html_content, results>>

\* the document up to the image (lines 256-718)
RenderHeader ==
    /\ pc = "render_header"
    /\ html_content' = <<HeaderPart, StatsPart>>
    /\ pc' = "render_markers"
    /\ UNCHANGED harnessVars
    /\ UNCHANGED <<json_text, loaded>>
    /\ UNCHANGED <<image_exists, ext_reply, score_reply, section_coordinates, analysis,
                   files, printed, trace, results>>

\* a marker loop that writes the buffer to the report file as it goes
RenderMarkerWritingThrough ==
    /\ pc = "render_markers"
    /\ Len(html_content) - 2 < Len(analysis.sections)
    /\ LET i == Len(html_content) - 2
       IN IF ReviewRaises(analysis.sections[i + 1])
          THEN /\ pc' = "main_exception"
               /\ Log("renderer_raise")
               /\ UNCHANGED <<html_content, files>>
          ELSE /\ html_content' = Append(html_content, Marker(analysis.sections[i + 1], i))
               /\ files' = [files EXCEPT !.html = html_content']
               /\ UNCHANGED <<pc, trace>>
    /\ UNCHANGED harnessVars
    /\ UNCHANGED <<json_text, loaded>>
    /\ UNCHANGED <<image_exists, ext_reply, score_reply, section_coordinates, analysis,
                   printed, results>>

\* one pass of the marker loop; an exception leaves the renderer and the
\* workflow and reaches main (lines 721-808)
RenderMarker ==
    /\ pc = "render_markers"
    /\ Len(html_content) - 2 < Len(analysis.sections)
    /\ LET i == Len(html_content) - 2
       IN IF ReviewRaises(analysis.sections[i + 1])
          THEN /\ pc' = "main_exception"
               /\ Log("renderer_raise")
               /\ UNCHANGED html_content
          ELSE /\ html_content' = Append(html_content, Marker(analysis.sections[i + 1], i))
               /\ UNCHANGED <<pc, trace>>
    /\ UNCHANGED harnessVars
    /\ UNCHANGED <<json_text, loaded>>
    /\ UNCHANGED <<image_exists, ext_reply, score_reply, section_coordinates, analysis,
                   files, printed, results>>

\* the summary cards and the script (lines 810-957)
RenderSummary ==
    /\ pc = "render_markers"
    /\ Len(html_content) - 2 = Len(analysis.sections)
    /\ html_content' = html_content \o <<SummaryPart, ScriptPart>>
    /\ pc' = "render_write"
    /\ UNCHANGED harnessVars
    /\ UNCHANGED <<json_text, loaded>>
    /\ UNCHANGED <<image_exists, ext_reply, score_reply, section_coordinates, analysis,
                   files, printed, trace, results>>

\* the report file is written and its path returned (lines 959-964)
WriteHtml ==
    /\ pc = "render_write"
    /\ files' = [files EXCEPT !.html = html_content]
    /\ Say(<<"Interactive HTML report created">>)
    /\ LogWrite("write_html", "renderer_return")
    /\ pc' = "report_done"
    /\ UNCHANGED harnessVars
    /\ UNCHANGED <<json_text, loaded>>
    /\ UNCHANGED <<image_exists, ext_reply, score_reply, section_coordinates, analysis,
                   html_content, results>>

\* analyze_and_create_report returns its result (lines 1007-1026)
ReturnResults ==
    /\ pc = "report_done"
    /\ Say(<<"Analysis Complete">>)
    /\ results' = ReportResults(section_coordinates, analysis)
    /\ pc' = "main_return"
    /\ UNCHANGED harnessVars
    /\ UNCHANGED <<json_text, loaded>>
    /\ UNCHANGED <<image_exists, ext_reply, score_reply, section_coordinates, analysis,
                   html_content, files, trace>>

\* main after the call returned (lines 1046-1050)
MainReturn ==
    /\ pc = "main_return"
    /\ Say(IF Truthy(results) THEN <<"SUCCESS">> ELSE <<>>)
    /\ pc' = "done"
    /\ UNCHANGED harnessVars
    /\ UNCHANGED <<json_text, loaded>>
    /\ UNCHANGED <<image_exists, ext_reply, score_reply, section_coordinates, analysis,
                   html_content, files, trace, results>>

\* a main whose FileNotFoundError clause prints the generic message
MainFileNotFoundGeneric ==
    /\ pc = "main_file_not_found"
    /\ Say(<<"Error during analysis">>)
    /\ pc' = "done"
    /\ UNCHANGED harnessVars
    /\ UNCHANGED <<json_text, loaded>>
    /\ UNCHANGED <<image_exists, ext_reply, score_reply, section_coordinates, analysis,
                   html_content, files, trace, results>>

\* except FileNotFoundError (lines 1052-1054)
MainFileNotFound ==
    /\ pc = "main_file_not_found"
    /\ Say(<<"Error: Image file not found">>)
    /\ pc' = "done"
    /\ UNCHANGED harnessVars
    /\ UNCHANGED <<json_text, loaded>>
    /\ UNCHANGED <<image_exists, ext_reply, score_reply, section_coordinates, analysis,
                   html_content, files, trace, results>>

\* except Exception (lines 1056-1058)
MainException ==
    /\ pc = "main_exception"
    /\ Say(<<"Error during analysis">>)
    /\ pc' = "done"
    /\ UNCHANGED harnessVars
    /\ UNCHANGED <<json_text, loaded>>
    /\ UNCHANGED <<image_exists, ext_reply, score_reply, section_coordinates, analysis,
                   html_content, files, trace, results>>

Next ==
    \/ StartRun
    \/ ExtractorOpenImage
    \/ ExtractorImageMissing
    \/ ExtractorCallModel
    \/ ExtractorExtractJson
    \/ ExtractorLoads
    \/ ExtractorReturn
    \/ SaveCoordinates
    \/ CoordinatesFailed
    \/ ScorerCallModel
    \/ ScorerExtractJson
    \/ ScorerLoads
    \/ ScorerReturn
    \/ AnalysisFailed
    \/ SaveAnalysis
    \/ RenderHeader
    \/ RenderMarker
    \/ RenderSummary
    \/ WriteHtml
    \/ ReturnResults
    \/ MainReturn
    \/ MainFileNotFound
    \/ MainException

----------------------------------------------------------------------------
\* SpecJson: the extraction applied to bounded responses

SeqsUpTo(S, n) == UNION {[1..k -> S] : k \in 0..n}

\* the responses: null is left to the replies of a run, where it is parsed
Responses == SeqsUpTo(Tokens \ {NullWord}, MaxRespLen)

\* the texts of JSON objects: the empty object and the objects with one quoted key
JsonObjects ==
    {<<LBrace, RBrace>>} \cup
    {<<LBrace, Quote>> \o k \o <<Quote, RBrace>> :
        k \in SeqsUpTo(Tokens \ {Quote}, MaxKeyLen)}

Prose == {<<>>, <<JsonWord>>, <<JsonWord, Space>>, <<Space, JsonWord>>,
          <<LBrace>>, <<RBrace>>, <<Fence>>, <<NullWord, Space>>}

NoJson == [text |-> <<>>, value |-> None, done |-> FALSE]
NoRoundTrip == [object |-> <<>>, before |-> <<>>, after |-> <<>>,
                fenced |-> None, prose |-> None, sole |-> None,
                reference |-> None, done |-> FALSE]

Extracted(text) == [text |-> text, value |-> JsonLoads(text), done |-> TRUE]

JsonIdle ==
    /\ response_text = <<>>
    /\ coord_json = NoJson
    /\ score_json = NoJson
    /\ roundtrip = NoRoundTrip
    /\ jpc = "idle"

\* the model answers with some text
Respond ==
    /\ jpc = "idle"
    /\ \E r \in Responses : response_text' = r
    /\ jpc' = "responded"
    /\ UNCHANGED <<coord_json, score_json, roundtrip, coordVars, renderVars, docVars, pageVars, runVars>>

\* identify_section_coordinates, lines 109-119
ExtractAtCoordinateSite ==
    /\ jpc = "responded"
    /\ coord_json' = Extracted(CoordJsonText(response_text))
    /\ jpc' = "coordinate"
    /\ UNCHANGED <<response_text, score_json, roundtrip, coordVars, renderVars, docVars, pageVars, runVars>>

\* analyze_profile, lines 236-246
ExtractAtScoringSite ==
    /\ jpc = "coordinate"
    /\ score_json' = Extracted(ScoreJsonText(response_text))
    /\ jpc' = "scoring"
    /\ UNCHANGED <<response_text, coord_json, roundtrip, coordVars, renderVars, docVars, pageVars, runVars>>

\* one object embedded three ways, each extracted and parsed as the code does
RoundTrip ==
    /\ jpc = "idle"
    /\ \E obj \in JsonObjects, pre \in Prose, post \in Prose : roundtrip' =
         [object |-> obj, before |-> pre, after |-> post,
          fenced |-> JsonLoads(CoordJsonText(
                       pre \o FenceTag \o <<Space>> \o obj \o <<Space, Fence>> \o post)),
          prose |-> JsonLoads(CoordJsonText(pre \o obj \o post)),
          sole |-> JsonLoads(CoordJsonText(obj)),
          reference |-> JsonLoads(obj),
          done |-> TRUE]
    /\ jpc' = "roundtrip"
    /\ UNCHANGED <<response_text, coord_json, score_json, coordVars, renderVars, docVars, pageVars, runVars>>

JsonNext ==
    \/ Respond
    \/ ExtractAtCoordinateSite
    \/ ExtractAtScoringSite
    \/ RoundTrip

----------------------------------------------------------------------------
\* Specifications

Idle ==
    /\ JsonIdle /\ CoordIdle /\ RenderIdle /\ DocIdle /\ PageIdle /\ RunIdle
    /\ image_exists \in BOOLEAN

Init == Idle

Spec == Init /\ [][Next]_vars

\* main is one sequential thread: whatever step is next is taken
FairSpec == Spec /\ WF_vars(Next)

SpecJson == Idle /\ [][JsonNext]_vars

SpecCoords == Idle /\ [][CoordNext]_vars

SpecRender == Idle /\ [][RenderNext]_vars

SpecDocument == Idle /\ [][DocNext]_vars

SpecPage == Idle /\ [][PageNext]_vars

----------------------------------------------------------------------------
\* Claims about the JSON extraction (checked under SpecJson)

HasToken(s, t) == \E i \in 1..Len(s) : s[i] = t

\* the tag of the first fenced JSON block is at i and its closing fence at j
FencedBlock(r, i, j) ==
    /\ i + 1 < j
    /\ r[i] = Fence /\ r[i + 1] = JsonWord
    /\ \A k \in 1..(i - 1) : ~(r[k] = Fence /\ r[k + 1] = JsonWord)
    /\ r[j] = Fence
    /\ \A k \in (i + 2)..(j - 1) : r[k] # Fence

HasFencedBlock(r) == \E i \in 1..Len(r), j \in 1..Len(r) : FencedBlock(r, i, j)

\* the first opening brace is at a and the last closing brace at b, after it
BracePair(r, a, b) ==
    /\ a < b
    /\ r[a] = LBrace /\ \A k \in 1..(a - 1) : r[k] # LBrace
    /\ r[b] = RBrace /\ \A k \in (b + 1)..Len(r) : r[k] # RBrace

BothSitesDone == coord_json.done /\ score_json.done

\* C4 (as stated): at both call sites the text handed to the parser is the
\* exact interior of the fenced JSON block when the response has one, and
\* otherwise the substring from the first opening brace to the last closing
\* brace; both sites select the same text.
C4_ExactInterior ==
    BothSitesDone =>
        /\ coord_json.text = score_json.text
        /\ \A i \in 1..Len(response_text), j \in 1..Len(response_text) :
              /\ FencedBlock(response_text, i, j) =>
                    coord_json.text = SubSeq(response_text, i + 2, j - 1)
              /\ (~HasFencedBlock(response_text) /\ BracePair(response_text, i, j)) =>
                    coord_json.text = SubSeq(response_text, i, j)

\* C4 (amended): both call sites select the same text for every response;
\* when the response holds the json fence tag followed by a closing fence the
\* text is the interior of that block with the surrounding whitespace
\* stripped; when it holds no json fence tag and a closing brace follows the
\* first opening brace, it is the substring from the first opening brace to
\* the last closing brace inclusive.
C4_SameTextAtBothSites ==
    BothSitesDone =>
        /\ coord_json.text = score_json.text
        /\ \A i \in 1..Len(response_text), j \in 1..Len(response_text) :
              /\ FencedBlock(response_text, i, j) =>
                    coord_json.text = Strip(SubSeq(response_text, i + 2, j - 1))
              /\ (~Contains(response_text, FenceTag) /\ BracePair(response_text, i, j)) =>
                    coord_json.text = SubSeq(response_text, i, j)

\* C4 witness: both sites have extracted from a response whose fenced block
\* has whitespace around a non-empty interior
C4_Witness ==
    /\ BothSitesDone
    /\ \E i \in 1..Len(response_text), j \in 1..Len(response_text) :
          /\ FencedBlock(response_text, i, j)
          /\ response_text[i + 2] = Space
          /\ score_json.text # <<>>

BenignProse(p) == ~HasToken(p, LBrace) /\ ~HasToken(p, RBrace) /\ ~HasToken(p, Fence)

\* C5 (as stated): for every JSON object, embedding it in a fenced JSON
\* block, in prose with surrounding text, or as the sole content gives the
\* identical parsed object in all three cases.
C5_RoundTripEveryObject ==
    (roundtrip.done /\ BenignProse(roundtrip.before) /\ BenignProse(roundtrip.after)) =>
        /\ roundtrip.fenced = roundtrip.prose
        /\ roundtrip.prose = roundtrip.sole
        /\ roundtrip.sole = roundtrip.reference

\* C5 (amended): for every JSON object whose text contains no code fence,
\* and surrounding text that contains neither a brace nor a code fence, the
\* fenced, the prose and the sole-content embedding all parse to the
\* identical object, the one the object's own text parses to.
C5_RoundTripFenceFreeObject ==
    (/\ roundtrip.done
     /\ ~HasToken(roundtrip.object, Fence)
     /\ BenignProse(roundtrip.before) /\ BenignProse(roundtrip.after)) =>
        /\ roundtrip.reference.kind = "dict"
        /\ roundtrip.fenced = roundtrip.reference
        /\ roundtrip.prose = roundtrip.reference
        /\ roundtrip.sole = roundtrip.reference

\* C5 witness: a non-empty object between non-empty prose made the round trip
C5_Witness ==
    /\ roundtrip.done
    /\ ~HasToken(roundtrip.object, Fence)
    /\ roundtrip.before = <<JsonWord, Space>> /\ roundtrip.after = <<Space, JsonWord>>
    /\ roundtrip.sole.kind = "dict" /\ roundtrip.sole.keys # <<>>
    /\ roundtrip.fenced = roundtrip.sole /\ roundtrip.prose = roundtrip.sole

----------------------------------------------------------------------------
\* Claims about the coordinate post-processing (checked under SpecCoords)

Processed == cpc # "idle" /\ ~coordinates.raised

\* the pair the model gave for a section of the result ([0, 0] when it gave none)
GivenPair(section) == TitleCoordinates(model_sections[section.section_name])

InRange(v, lo, hi) == lo <= v /\ v <= hi

ClampedTo(v, lo, hi) == IF v < lo THEN lo ELSE IF v > hi THEN hi ELSE v

\* C8: every section of the result has y = clamp(y_in, 0, 100) and
\* x = max(0, clamp(x_in, 0, 100) - 0.5) for any input pair, so x and y lie in
\* [0, 100] and x is never negative.
C8_ClampedAndNudged ==
    Processed =>
        \A i \in 1..Len(coordinates.detected_sections) :
            LET section == coordinates.detected_sections[i]
                x == section.title_coordinates[1]
                y == section.title_coordinates[2]
                given == GivenPair(section)
                cx == ClampedTo(given[1], 0, 1000)
            IN /\ Len(section.title_coordinates) = 2
               /\ y = ClampedTo(given[2], 0, 1000)
               /\ x = (IF cx - 5 < 0 THEN 0 ELSE cx - 5)
               /\ InRange(x, 0, 1000) /\ InRange(y, 0, 1000)

\* C8 witness: a section given x just above 0 and y above 100 was stored with
\* x = 0 and y = 100, next to one given x above 100 and a negative y
C8_Witness ==
    /\ Processed
    /\ \E i, j \in 1..Len(coordinates.detected_sections) :
          /\ GivenPair(coordinates.detected_sections[i]) = <<3, 1500>>
          /\ coordinates.detected_sections[i].title_coordinates = <<0, 1000>>
          /\ GivenPair(coordinates.detected_sections[j]) = <<1004, -5>>
          /\ coordinates.detected_sections[j].title_coordinates = <<995, 0>>

SortedByStoredY(out) ==
    \A i, j \in 1..Len(out) :
        i < j => out[i].title_coordinates[2] <= out[j].title_coordinates[2]

\* C9 (as stated): detected_sections is sorted ascending by the stored
\* (clamped) y, sections with equal stored y keep the order the model gave
\* them, and sorting the result again returns the same order.
C9_StableByStoredY ==
    Processed =>
        LET out == coordinates.detected_sections
        IN /\ SortedByStoredY(out)
           /\ \A i, j \in 1..Len(out) :
                 (i < j /\ out[i].title_coordinates[2] = out[j].title_coordinates[2])
                     => out[i].section_name < out[j].section_name
           /\ cpc = "resorted" => coordinates.resorted = out

\* C9 (amended): detected_sections is sorted ascending by the stored
\* (clamped) y, sections to which the model gave equal y (before clamping)
\* keep the order the model gave them, and sorting the result again returns
\* the same order.
C9_StableByGivenY ==
    Processed =>
        LET out == coordinates.detected_sections
        IN /\ Len(out) = Len(model_sections)
           /\ SortedByStoredY(out)
           /\ \A i, j \in 1..Len(out) :
                 (i < j /\ GivenPair(out[i])[2] = GivenPair(out[j])[2])
                     => out[i].section_name < out[j].section_name
           /\ cpc = "resorted" => coordinates.resorted = out

\* C9 witness: the sort moved a later section ahead of an earlier one, kept
\* nothing else apart, and the result was sorted again
C9_Witness ==
    /\ Processed /\ cpc = "resorted"
    /\ Len(coordinates.detected_sections) = 2
    /\ coordinates.detected_sections[1].section_name = 2
    /\ coordinates.detected_sections[1].title_coordinates[2]
          < coordinates.detected_sections[2].title_coordinates[2]

\* C17: every section of a result with at least one detected section
\* carries a coordinate_precision that is high exactly when its confidence
\* is >= 85 and medium otherwise, a missing confidence included; no third
\* value is produced.
C17_TwoPrecisionTiers ==
    Processed =>
        \A i \in 1..Len(coordinates.detected_sections) :
            LET section == coordinates.detected_sections[i]
                given == model_sections[section.section_name].confidence
            IN /\ section.coordinate_precision \in {"high", "medium"}
               /\ section.coordinate_precision = "high" <=>
                      (given.present /\ given.value >= 85)

\* C17 witness: a section with confidence 85 was marked high next to one
\* without confidence, marked medium
C17_Witness ==
    /\ Processed
    /\ \E i, j \in 1..Len(coordinates.detected_sections) :
          /\ coordinates.detected_sections[i].confidence = [present |-> TRUE, value |-> 85]
          /\ coordinates.detected_sections[i].coordinate_precision = "high"
          /\ ~coordinates.detected_sections[j].confidence.present
          /\ coordinates.detected_sections[j].coordinate_precision = "medium"

----------------------------------------------------------------------------
\* Claims about the renderer's markers (checked under SpecRender)

\* C10: for each SectionReview the anchor before clamping is
\* (coordinates[0] + 3.0, coordinates[1]) when the section has coordinates,
\* and otherwise (bbox[2], bbox[1]) with no +3.0 offset.
C10_AnchorBeforeClamp ==
    \A k \in 1..Len(rendered.markers) :
        LET section == reviews[k]
            box == IF section.bbox = <<>> THEN <<0, 0, 100, 100>> ELSE section.bbox
        IN /\ rendered.markers[k].index = k - 1
           /\ section.coordinates # <<>> =>
                 rendered.markers[k].anchor =
                     <<section.coordinates[1] + 30, section.coordinates[2]>>
           /\ section.coordinates = <<>> =>
                 rendered.markers[k].anchor = <<box[3], box[2]>>

\* C10 witness: one marker was anchored on coordinates and the next on the
\* top-right corner of a bounding box
C10_Witness ==
    /\ Len(rendered.markers) = 2
    /\ reviews[1].coordinates = <<100, 1000>>
    /\ rendered.markers[1].anchor = <<130, 1000>>
    /\ reviews[2].coordinates = <<>> /\ reviews[2].bbox = <<100, 200, 400, 300>>
    /\ rendered.markers[2].anchor = <<400, 200>>

\* C11: every marker the renderer emits is positioned at the clamp of its
\* anchor, with x and y both in [0.0, 95.0], for any coordinates or bbox
\* including out-of-range and negative numbers; the +3.0 offset is applied
\* before the clamp.
C11_MarkerWithinRendererRange ==
    \A k \in 1..Len(rendered.markers) :
        LET marker == rendered.markers[k]
            section == reviews[k]
            box == IF section.bbox = <<>> THEN <<0, 0, 100, 100>> ELSE section.bbox
            x_pos == IF section.coordinates # <<>> THEN section.coordinates[1] + 30
                     ELSE box[3]
            y_pos == IF section.coordinates # <<>> THEN section.coordinates[2]
                     ELSE box[2]
        IN /\ marker.left = ClampedTo(x_pos, 0, 950)
           /\ marker.top = ClampedTo(y_pos, 0, 950)
           /\ InRange(marker.left, 0, 950) /\ InRange(marker.top, 0, 950)

\* C11 witness: coordinates whose offset x passes 95 and whose y is 100 were
\* placed at (95, 95), next to a bbox with a negative y placed at (95, 0)
C11_Witness ==
    /\ Len(rendered.markers) = 2
    /\ reviews[1].coordinates = <<930, 1000>>
    /\ rendered.markers[1].left = 950 /\ rendered.markers[1].top = 950
    /\ reviews[2].coordinates = <<>> /\ reviews[2].bbox = <<0, -10, 990, 50>>
    /\ rendered.markers[2].left = 950 /\ rendered.markers[2].top = 0

----------------------------------------------------------------------------
\* Claims about the document (checked under SpecDocument)

Rendered == dpc = "rendered"

\* C12: every overall_score falls in exactly one of three classes:
\* excellent when it is >= 85, good when it is >= 60 and below 85, poor
\* otherwise, and a missing score is treated as 0.
C12_ThreeScoreClasses ==
    Rendered =>
        LET score == IF profile.overall_score.present
                     THEN profile.overall_score.value ELSE 0
        IN /\ document.score_class \in {"score-excellent", "score-good", "score-poor"}
           /\ document.score_class = "score-excellent" <=> score >= 85
           /\ document.score_class = "score-good" <=> (score >= 60 /\ score < 85)
           /\ document.score_class = "score-poor" <=> score < 60

\* C12 witness: a document was rendered for an analysis without a score,
\* and its banner is poor
C12_Witness ==
    /\ Rendered
    /\ ~profile.overall_score.present
    /\ document.score_class = "score-poor"

\* the number of sections of the analysis that carry the given criticality
RECURSIVE Carrying(_, _)
Carrying(sections, colour) ==
    IF sections = <<>> THEN 0
    ELSE (IF Head(sections).criticality = colour THEN 1 ELSE 0)
             + Carrying(Tail(sections), colour)

\* C13: the statistics strip shows for each of red, yellow and green the
\* number of sections whose criticality is that value, and the total number
\* of sections; an analysis with zero sections still gives a document, with
\* zero markers and every count 0.
C13_StatisticsStrip ==
    Rendered =>
        /\ document.stats.red_count = Carrying(profile.sections, "red")
        /\ document.stats.yellow_count = Carrying(profile.sections, "yellow")
        /\ document.stats.green_count = Carrying(profile.sections, "green")
        /\ document.stats.total_sections = Len(profile.sections)
        /\ Len(document.buttons) = Len(profile.sections)
        /\ profile.sections = <<>> =>
              /\ document.buttons = <<>> /\ document.tooltips = <<>>
              /\ document.stats = [red_count |-> 0, yellow_count |-> 0,
                                   green_count |-> 0, total_sections |-> 0]

\* C13 witness: a document was rendered for an analysis with zero sections
C13_Witness ==
    /\ Rendered
    /\ profile.sections = <<>>
    /\ document.score_class = "score-excellent"
    /\ document.stats.total_sections = 0
    /\ document.buttons = <<>>

\* C18: the renderer emits exactly one marker and one detail panel per
\* SectionReview, in the order of the analysis: the i-th marker refers to
\* the i-th panel and to no other, and each panel lists at most the first 5
\* improvement items of its section, in their original order.
C18_OneMarkerAndPanelPerSection ==
    Rendered =>
        /\ Len(document.buttons) = Len(profile.sections)
        /\ Len(document.tooltips) = Len(profile.sections)
        /\ \A k \in 1..Len(profile.sections) :
              LET given == profile.sections[k].improvements
                  listed == document.tooltips[k].improvements
              IN /\ document.tooltips[k].name = profile.sections[k].name
                 /\ {j \in 1..Len(document.tooltips) :
                        document.tooltips[j].id = document.buttons[k].tooltip_id} = {k}
                 /\ Len(listed) = (IF Len(given) < 5 THEN Len(given) ELSE 5)
                 /\ \A m \in 1..Len(listed) : listed[m] = given[m]

\* C18 witness: two sections were rendered, the second with six
\* improvements of which its panel lists the first five
C18_Witness ==
    /\ Rendered
    /\ Len(profile.sections) = 2
    /\ Len(profile.sections[2].improvements) = 6
    /\ document.tooltips[2].improvements = <<1, 2, 3, 4, 5>>
    /\ document.buttons[2].tooltip_id = 1 /\ document.tooltips[2].id = 1

\* the number of markers drawn in the given colour
MarkersOf(colour) ==
    Cardinality({k \in 1..Len(document.buttons) : document.buttons[k].criticality = colour})

\* the sections of the analysis that have no criticality field
WithoutCriticality ==
    {k \in 1..Len(profile.sections) : profile.sections[k].criticality = Absent}

----------------------------------------------------------------------------
\* Claims about the rendered document's handlers (checked under SpecPage)

Shown == {t \in 1..infoButtons : show[t]}

ShownBefore == {t \in 1..infoButtons : last_event.before[t]}

\* C14: after any sequence of marker clicks, clicks inside a panel, clicks
\* outside and window resizes at most one detail panel is shown; a click on
\* a marker whose panel was hidden shows that panel and hides every other,
\* and a click on a marker whose panel was shown hides it.
C14_OnePanelAtATime ==
    /\ Cardinality(Shown) <= 1
    /\ last_event.kind = "click_button" =>
          /\ last_event.target \notin ShownBefore => Shown = {last_event.target}
          /\ last_event.target \in ShownBefore => Shown = {}

\* C14 witness: with the first panel shown, the third marker was clicked and
\* only the third panel is shown
C14_Witness ==
    /\ infoButtons = 3
    /\ last_event.kind = "click_button" /\ last_event.target = 3
    /\ ShownBefore = {1}
    /\ Shown = {3}

\* C15: a click outside every marker and panel hides all panels, a window
\* resize hides all open panels, and a click inside an open panel leaves
\* that panel open; after an outside click or a resize no panel is shown.
C15_OutsideClickAndResizeClose ==
    /\ last_event.kind \in {"click_outside", "resize"} => Shown = {}
    /\ last_event.kind = "click_tooltip" =>
          /\ last_event.target \in ShownBefore
          /\ Shown = ShownBefore

\* C15 witness: a resize closed the panel that was open
C15_Witness ==
    /\ last_event.kind = "resize"
    /\ ShownBefore = {2}
    /\ Shown = {}

\* C22: a marker's enlarged inline scale is reset to 1 only by the pointer
\* leaving that marker while its panel is hidden, or by a click outside
\* every marker and panel, which resets every marker; hiding a panel by a
\* click on a different marker or by a window resize leaves the scales as
\* they are.
C22_ScaleResetOnlyByLeaveOrOutsideClick ==
    [][/\ \A b \in 1..infoButtons :
             (transform[b] # Unscaled /\ transform'[b] = Unscaled) =>
                 \/ last_event'.kind = "click_outside"
                 \/ /\ last_event'.kind = "mouseleave"
                    /\ last_event'.target = b
                    /\ ~show[b]
       /\ last_event'.kind = "click_outside" =>
             \A b \in 1..infoButtons : transform'[b] = Unscaled
       /\ last_event'.kind \in {"click_button", "resize"} => transform' = transform]_vars

\* C22 witness: a resize hid the panel of a marker that is still enlarged
\* while the pointer is over no marker
C22_Witness ==
    /\ last_event.kind = "resize"
    /\ hover = 0
    /\ \E b \in 1..infoButtons :
          /\ b \in ShownBefore
          /\ ~show[b]
          /\ transform[b] = Enlarged

----------------------------------------------------------------------------
\* Claims about a run (checked under Spec and FairSpec)

InTrace(event) == \E i \in 1..Len(trace) : trace[i] = event

Printed(message) == \E i \in 1..Len(printed) : printed[i] = message

Count(s, t) == Cardinality({i \in 1..Len(s) : s[i] = t})

\* a response with no opening brace or with unbalanced braces
MalformedText(text) ==
    ~HasToken(text, LBrace) \/ Count(text, LBrace) # Count(text, RBrace)

\* the step ended in one of its except clauses: the model call raised, or
\* json.loads raised on the text the step selected
ExtractorFailed ==
    /\ InTrace("extractor_return")
    /\ \/ ext_reply.raised
       \/ JsonLoads(CoordJsonText(ext_reply.text)) = JSONDecodeError

ScorerFailed ==
    /\ InTrace("scorer_return")
    /\ \/ score_reply.raised
       \/ JsonLoads(ScoreJsonText(score_reply.text)) = JSONDecodeError

\* C1: a failed Coordinate Extractor step (model call error or malformed
\* response) does not abort the run: the Profile Scorer is still called, with
\* no coordinate context; a failed Profile Scorer step is fatal: the run returns
\* no result and the Report Renderer is never invoked.
C1_ExtractorDegradesScorerFatal ==
    /\ (ExtractorFailed /\ pc # "step1_branch") =>
          /\ InTrace("scorer_call")
          /\ section_coordinates = NoneValue
          /\ files.coordinates = NoFile
    /\ ScorerFailed =>
          /\ pc \in {"step2_branch", "main_return", "done"}
          /\ ~Truthy(results)
          /\ ~InTrace("renderer_call")
          /\ files.html = NoFile /\ files.analysis = NoFile

\* C1 witness: the extractor failed and the run still ended with a report
C1_Witness ==
    /\ ExtractorFailed /\ ext_reply.raised
    /\ pc = "done"
    /\ InTrace("renderer_return")
    /\ files.html # NoFile
    /\ Truthy(results)

\* the whole document of an analysis
FullDocument(sections) ==
    <<[part |-> "header"], [part |-> "stats"]>>
        \o [k \in 1..Len(sections) |->
               [part |-> "marker", index |-> k - 1, anchor |-> Anchor(sections[k]),
                left |-> ClampedTo(Anchor(sections[k])[1], 0, 950),
                top |-> ClampedTo(Anchor(sections[k])[2], 0, 950)]]
        \o <<[part |-> "summary"], [part |-> "script"]>>

\* C2: the HTML report file is written only after the Profile Scorer has
\* produced a valid ProfileAnalysis, and when written it holds the complete
\* document; a failure while the document is built leaves no HTML file.
C2_OnlyCompleteHtml ==
    /\ files.html # NoFile =>
          /\ InTrace("scorer_return") /\ ~ScorerFailed
          /\ Truthy(analysis)
          /\ files.analysis # NoFile
          /\ files.html = FullDocument(analysis.sections)
    /\ InTrace("renderer_raise") => files.html = NoFile

\* C2 witness: a report with two markers was written
C2_Witness ==
    /\ files.html # NoFile
    /\ Len(analysis.sections) = 2
    /\ Len(files.html) = 6
    /\ pc = "done"

\* C3: when the response has no opening brace, has unbalanced braces or does
\* not parse, extraction fails with a MalformedResponse error that the caller
\* receives together with the raw text, never a silent empty result, at both
\* call sites.
C3_CallerReceivesMalformedResponse ==
    /\ (/\ pc = "step1_branch" /\ ~ext_reply.raised
        /\ \/ MalformedText(ext_reply.text)
           \/ JsonLoads(CoordJsonText(ext_reply.text)) = JSONDecodeError) =>
          /\ section_coordinates.kind = "MalformedResponse"
          /\ section_coordinates.sections = ext_reply.text
    /\ (/\ pc = "step2_branch" /\ ~score_reply.raised
        /\ \/ MalformedText(score_reply.text)
           \/ JsonLoads(ScoreJsonText(score_reply.text)) = JSONDecodeError) =>
          /\ analysis.kind = "MalformedResponse"
          /\ analysis.sections = score_reply.text

\* C6: identify_section_coordinates gives its caller a result or a definite
\* failure signal, never None for a failure, and analyze_and_create_report
\* takes its failure branch exactly when the model call failed, not when the
\* model answered and no sections were detected.
C6_DefiniteFailureSignal ==
    /\ (pc = "step1_branch" /\ ext_reply.raised) => section_coordinates # NoneValue
    /\ pc = "scorer_model" =>
          (Printed("Coordinate detection failed") <=> ExtractorFailed)

Rank(event) ==
    CASE event = "extractor_call" -> 1
      [] event = "extractor_model_call" -> 2
      [] event = "extractor_return" -> 3
      [] event = "scorer_call" -> 4
      [] event = "scorer_model_call" -> 5
      [] event = "scorer_return" -> 6
      [] event = "renderer_call" -> 7
      [] OTHER -> 8

ModelCalls(site) == Count(trace, site)

IsWrite(e) == e \in {"write_coordinates", "write_analysis", "write_html"}

StepsInOrder ==
    /\ \A i, j \in 1..Len(trace) :
          (i < j /\ ~IsWrite(trace[i]) /\ ~IsWrite(trace[j]))
              => Rank(trace[i]) < Rank(trace[j])
    /\ InTrace("scorer_call") => InTrace("extractor_return")
    /\ InTrace("renderer_call") => InTrace("scorer_return")
    /\ InTrace("extractor_model_call") => InTrace("extractor_call")
    /\ InTrace("scorer_model_call") => InTrace("scorer_call")
    /\ ModelCalls("extractor_model_call") <= 1
    /\ ModelCalls("scorer_model_call") <= 1

Terminal ==
    /\ pc = "done"
    /\ \/ Printed("SUCCESS") /\ files.html # NoFile
       \/ Printed("Profile analysis failed")
       \/ Printed("Error: Image file not found")
       \/ Printed("Error during analysis")

\* C7: every run executes Extractor, Scorer, Renderer in that order, each step
\* starting only after the previous one returned, calls the model at most once
\* per step and never again, and reaches a terminal state (report produced or
\* failure reported).
C7_LinearRunTerminates == [](StepsInOrder /\ (pc = "done" => Terminal)) /\ <>Terminal

\* C7 witness: a run went through all three steps and ended
C7_Witness ==
    /\ pc = "done"
    /\ trace = <<"extractor_call", "extractor_model_call", "extractor_return",
                 "scorer_call", "scorer_model_call", "scorer_return",
                 "write_analysis", "renderer_call", "write_html", "renderer_return">>

ImageNotFoundMessages == Count(printed, "Error: Image file not found")

GenericErrorMessages == Count(printed, "Error during analysis")

\* the run ended in an exception that reached main
EndedInException == pc = "done" /\ (~image_exists \/ InTrace("renderer_raise"))

MainDistinguishes ==
    /\ (pc = "done" /\ ~image_exists) =>
          /\ ImageNotFoundMessages = 1 /\ GenericErrorMessages = 0
          /\ ~InTrace("extractor_model_call") /\ ~InTrace("scorer_model_call")
    /\ (pc = "done" /\ InTrace("renderer_raise")) =>
          ImageNotFoundMessages = 0 /\ GenericErrorMessages = 1
    /\ EndedInException => results = NoneValue /\ ~Printed("SUCCESS")

\* C16 (as stated): a missing image ends the run with the image-not-found
\* message and no model call, any other failure that escapes the pipeline
\* ends it with the generic message, and every failed run prints exactly one
\* of the two messages.
C16_OneMessagePerFailedRun ==
    /\ MainDistinguishes
    /\ (pc = "done" /\ ~Printed("SUCCESS")) =>
          ImageNotFoundMessages + GenericErrorMessages = 1

\* C16 (amended): as above, with exactly one of the two messages printed
\* for every run that ends in an exception reaching main; a run that fails
\* without one (the Profile Scorer gave no analysis) prints neither of the
\* two, only the workflow's own failure message.
C16_OneMessagePerEscapedFailure ==
    /\ MainDistinguishes
    /\ EndedInException => ImageNotFoundMessages + GenericErrorMessages = 1
    /\ (pc = "done" /\ ~Printed("SUCCESS") /\ ~EndedInException) =>
          /\ ImageNotFoundMessages + GenericErrorMessages = 0
          /\ Printed("Profile analysis failed")

\* C16 witness: the image was missing and the run ended with the
\* image-not-found message before any model call
C16_Witness ==
    /\ pc = "done" /\ ~image_exists
    /\ trace = <<"extractor_call">>
    /\ Printed("Error: Image file not found")

\* the model answered the step with the empty JSON object
ExtractorAnsweredEmpty ==
    /\ InTrace("extractor_return") /\ ~ext_reply.raised
    /\ JsonLoads(CoordJsonText(ext_reply.text)) = Dict(<<>>)

ScorerAnsweredEmpty ==
    /\ InTrace("scorer_return") /\ ~score_reply.raised
    /\ JsonLoads(ScoreJsonText(score_reply.text)) = Dict(<<>>)

\* C19: a response that parses to the empty JSON object is treated like a
\* failed step: from the Extractor the run takes the coordinate detection
\* failed branch and writes no coordinates file; from the Scorer it takes
\* the profile analysis failed branch, returns no result and writes neither
\* the analysis JSON nor the HTML.
C19_EmptyObjectIsFailure ==
    /\ (ExtractorAnsweredEmpty /\ pc # "step1_branch") =>
          /\ Printed("Coordinate detection failed")
          /\ ~Printed("Coordinates saved")
          /\ files.coordinates = NoFile
          /\ section_coordinates = NoneValue
    /\ (ScorerAnsweredEmpty /\ pc # "step2_branch") =>
          /\ Printed("Profile analysis failed")
          /\ results = NoneValue
          /\ files.analysis = NoFile /\ files.html = NoFile
          /\ ~InTrace("renderer_call")

\* C19 witness: both steps were answered with the empty object and the run
\* ended without a result
C19_Witness ==
    /\ pc = "done"
    /\ ExtractorAnsweredEmpty /\ ScorerAnsweredEmpty
    /\ Printed("Coordinate detection failed") /\ Printed("Profile analysis failed")

Position(e) == CHOOSE i \in 1..Len(trace) : trace[i] = e

Before(a, b) == InTrace(a) /\ InTrace(b) /\ Position(a) < Position(b)

====
